---- MODULE Spec2Model ----
(***************************************************************************)
(* Model of package webapp (src/webapp/webapp_flow.go): the OAuth Web      *)
(* Application flow.  A Go string is a finite sequence of tokens: a token  *)
(* is either one reserved character (":", "/", "?", "&", "=", " ", "+",    *)
(* "%", "#"), one percent-escape ("%3A", ...), or a maximal run of         *)
(* unreserved characters ("callback", "127.0.0.1", "client_id").  The      *)
(* empty Go string is the empty sequence.                                  *)
(***************************************************************************)
EXTENDS Integers, Sequences, FiniteSets, TLC

VARIABLES
    initRet,      \* what InitFlow returned: "none" (not called), "ok", "err"
    flow,         \* the Flow struct: state, clientID
    server,       \* the localServer: port, CallbackPath, WriteSuccessHTML, listener
    browserCall,  \* arguments and return values of the last BrowserURL call
    serveRet,     \* StartServer's position and return value
    inflight,     \* accepted requests whose handler has not finished
    signal,       \* the server's completion signal
    ioErr,        \* a listener I/O error has occurred
    pc,           \* position of the caller inside AccessTokenWithParams
    call,         \* arguments and locals of the running AccessTokenWithParams
    posts,        \* POST requests issued to the token endpoint, in order
    ret,          \* return value of the last AccessTokenWithParams
    handled,      \* requests to the callback path handled so far, in order
    made          \* what the further InitFlow calls of the process returned

vars == <<initRet, flow, server, browserCall, serveRet, inflight, signal,
          ioErr, pc, call, posts, ret, handled, made>>

(***************************************************************************)
(* strings package: Index, HasPrefix, HasSuffix, Cut, Join, Count           *)
(***************************************************************************)
RECURSIVE IndexFrom(_, _, _)
IndexFrom(s, t, i) ==
    IF i > Len(s) THEN 0
    ELSE IF s[i] = t THEN i ELSE IndexFrom(s, t, i + 1)

Index(s, t) == IndexFrom(s, t, 1)

Count(s, t) == Cardinality({i \in 1..Len(s) : s[i] = t})

HasPrefix(s, p) == Len(s) >= Len(p) /\ SubSeq(s, 1, Len(p)) = p

HasSuffix(s, p) == Len(s) >= Len(p) /\ SubSeq(s, Len(s) - Len(p) + 1, Len(s)) = p

\* strings.Cut: the parts before and after the first occurrence of sep
Cut(s, sep) ==
    LET i == Index(s, sep) IN
    IF i = 0 THEN [before |-> s, after |-> <<>>, found |-> FALSE]
    ELSE [before |-> SubSeq(s, 1, i - 1), after |-> SubSeq(s, i + 1, Len(s)),
          found |-> TRUE]

RECURSIVE JoinFrom(_, _, _)
JoinFrom(elems, sep, i) ==
    IF i > Len(elems) THEN <<>>
    ELSE IF i = Len(elems) THEN elems[i]
    ELSE elems[i] \o sep \o JoinFrom(elems, sep, i + 1)

\* strings.Join(elems, sep)
Join(elems, sep) == JoinFrom(elems, sep, 1)

(***************************************************************************)
(* net/url: escaping                                                       *)
(***************************************************************************)
Reserved == {":", "/", "?", "&", "=", " ", "+", "%", "#"}

\* the percent-escape of a reserved character
Pct(c) ==
    CASE c = ":" -> "%3A" [] c = "/" -> "%2F" [] c = "?" -> "%3F"
      [] c = "&" -> "%26" [] c = "=" -> "%3D" [] c = " " -> "%20"
      [] c = "+" -> "%2B" [] c = "%" -> "%25" [] c = "#" -> "%23"

PctTokens == {Pct(c) : c \in Reserved}

UnPct(t) == CHOOSE c \in Reserved : Pct(c) = t

\* the escape of a percent-escape: its "%" becomes "%25"
Pct2(t) ==
    CASE t = "%3A" -> "%253A" [] t = "%2F" -> "%252F" [] t = "%3F" -> "%253F"
      [] t = "%26" -> "%2526" [] t = "%3D" -> "%253D" [] t = "%20" -> "%2520"
      [] t = "%2B" -> "%252B" [] t = "%25" -> "%2525" [] t = "%23" -> "%2523"

Pct2Tokens == {Pct2(t) : t \in PctTokens}

UnPct2(t) == CHOOSE c \in PctTokens : Pct2(c) = t

\* url.shouldEscape(c, mode) for the reserved characters
shouldEscape(c, mode) ==
    CASE mode = "query" -> TRUE
      [] mode = "path"  -> c \in {"?", " ", "%", "#"}
      [] mode = "host"  -> c \in {"/", "?", " ", "%", "#"}
      [] mode = "fragment" -> c \in {" ", "%", "#"}

escapeTok(t, mode) ==
    IF t \in Reserved /\ shouldEscape(t, mode)
    THEN (IF t = " " /\ mode = "query" THEN "+" ELSE Pct(t))
    ELSE IF t \in PctTokens THEN Pct2(t)
    ELSE t

\* url.escape(s, mode)
escape(s, mode) == [i \in 1..Len(s) |-> escapeTok(s[i], mode)]

\* an escape that only turns spaces into "+"
QueryEscapeSpacesOnly(s) == [i \in 1..Len(s) |-> IF s[i] = " " THEN "+" ELSE s[i]]

\* url.QueryEscape(s)
QueryEscape(s) == escape(s, "query")

unescapeTok(t, mode) ==
    IF t \in PctTokens THEN UnPct(t)
    ELSE IF t \in Pct2Tokens THEN UnPct2(t)
    ELSE IF t = "+" /\ mode = "query" THEN " "
    ELSE t

\* url.unescape(s, mode): a "%" that does not start an escape is an error; in
\* a host an escape other than %25, or a character that must be escaped, is too
unescape(s, mode) ==
    IF \/ Index(s, "%") # 0
       \/ mode = "host" /\ \E i \in 1..Len(s) :
             \/ s[i] \in (PctTokens \cup Pct2Tokens) \ {"%25"}
             \/ s[i] \in Reserved /\ shouldEscape(s[i], "host")
    THEN [ok |-> FALSE, s |-> <<>>]
    ELSE [ok |-> TRUE, s |-> [i \in 1..Len(s) |-> unescapeTok(s[i], mode)]]

(***************************************************************************)
(* net/url: Parse, URL.Hostname, URL.String                                *)
(***************************************************************************)
\* the ports the operating system hands out while a flow runs, and the ports
\* of the URL specification
Ports == {49152}

URLPorts == Ports \cup {50000}

\* runs of digits, the only tokens valid as a port
DigitTokens == {ToString(p) : p \in URLPorts} \cup {"8080"}

\* tokens url.getScheme accepts as a scheme (a letter, then letters and digits)
SchemeTokens == {"http", "https"}

BadURL == [ok |-> FALSE, Scheme |-> <<>>, Opaque |-> <<>>, Host |-> <<>>,
           Path |-> <<>>, RawQuery |-> <<>>, ForceQuery |-> FALSE,
           Fragment |-> <<>>]

\* url.getScheme(rawURL)
getScheme(raw) ==
    IF raw # <<>> /\ raw[1] = ":" THEN [ok |-> FALSE, scheme |-> <<>>, rest |-> <<>>]
    ELSE IF Len(raw) >= 2 /\ raw[1] \in SchemeTokens /\ raw[2] = ":"
    THEN [ok |-> TRUE, scheme |-> <<raw[1]>>, rest |-> SubSeq(raw, 3, Len(raw))]
    ELSE [ok |-> TRUE, scheme |-> <<>>, rest |-> raw]

\* url.validOptionalPort(port)
validOptionalPort(port) ==
    \/ port = <<>>
    \/ port = <<":">>
    \/ Len(port) = 2 /\ port[1] = ":" /\ port[2] \in DigitTokens

RECURSIVE LastIndexFrom(_, _, _)
LastIndexFrom(s, t, i) ==
    IF i = 0 THEN 0
    ELSE IF s[i] = t THEN i ELSE LastIndexFrom(s, t, i - 1)

LastIndex(s, t) == LastIndexFrom(s, t, Len(s))

\* url.parseAuthority / url.parseHost (no userinfo, no IPv6 literal)
parseHost(host) ==
    LET i == LastIndex(host, ":") IN
    IF i # 0 /\ ~validOptionalPort(SubSeq(host, i, Len(host)))
    THEN [ok |-> FALSE, s |-> <<>>]
    ELSE unescape(host, "host")

\* url.parse(rawURL, viaRequest = false) after the fragment has been cut off
parse(raw) ==
    LET sch  == getScheme(raw)
        fq   == HasSuffix(sch.rest, <<"?">>) /\ Count(sch.rest, "?") = 1
        qcut == Cut(sch.rest, "?")
        rest == IF fq THEN SubSeq(sch.rest, 1, Len(sch.rest) - 1) ELSE qcut.before
        rawq == IF fq THEN <<>> ELSE qcut.after
        hasAuth == HasPrefix(rest, <<"/", "/">>)
                     /\ (sch.scheme # <<>> \/ ~HasPrefix(rest, <<"/", "/", "/">>))
        afterSl == SubSeq(rest, 3, Len(rest))
        slash   == Index(afterSl, "/")
        auth    == IF slash = 0 THEN afterSl ELSE SubSeq(afterSl, 1, slash - 1)
        prest   == IF ~hasAuth THEN rest
                   ELSE IF slash = 0 THEN <<>>
                   ELSE SubSeq(afterSl, slash, Len(afterSl))
        host    == IF hasAuth THEN parseHost(auth) ELSE [ok |-> TRUE, s |-> <<>>]
        path    == unescape(prest, "path")
    IN
    IF ~sch.ok THEN BadURL
    ELSE IF ~HasPrefix(rest, <<"/">>) /\ sch.scheme # <<>>
    THEN [BadURL EXCEPT !.ok = TRUE, !.Scheme = sch.scheme, !.Opaque = rest,
                        !.RawQuery = rawq, !.ForceQuery = fq]
    ELSE IF ~HasPrefix(rest, <<"/">>) /\ Index(Cut(rest, "/").before, ":") # 0
    THEN BadURL
    ELSE IF ~host.ok \/ ~path.ok THEN BadURL
    ELSE [ok |-> TRUE, Scheme |-> sch.scheme, Opaque |-> <<>>, Host |-> host.s,
          Path |-> path.s, RawQuery |-> rawq, ForceQuery |-> fq,
          Fragment |-> <<>>]

\* url.Parse(rawURL)
Parse(raw) ==
    LET fcut == Cut(raw, "#")
        u    == parse(fcut.before)
        frag == unescape(fcut.after, "fragment")
    IN  IF ~u.ok \/ ~frag.ok THEN BadURL
        ELSE [u EXCEPT !.Fragment = frag.s]

\* url.stripPort(hostport), and (*URL).Hostname
stripPort(hostport) ==
    LET colon == Index(hostport, ":") IN
    IF colon = 0 THEN hostport ELSE SubSeq(hostport, 1, colon - 1)

Hostname(u) == stripPort(u.Host)

\* (*URL).String (no userinfo; RawPath is empty, so EscapedPath escapes Path)
String(u) ==
    LET path == escape(u.Path, "path") IN
       (IF u.Scheme # <<>> THEN u.Scheme \o <<":">> ELSE <<>>)
    \o (IF u.Opaque # <<>> THEN u.Opaque
        ELSE (IF (u.Scheme # <<>> \/ u.Host # <<>>) /\ (u.Host # <<>> \/ u.Path # <<>>)
              THEN <<"/", "/">> ELSE <<>>)
          \o (IF u.Scheme # <<>> \/ u.Host # <<>> THEN escape(u.Host, "host") ELSE <<>>)
          \o (IF path # <<>> /\ path[1] # "/" /\ u.Host # <<>> THEN <<"/">> ELSE <<>>)
          \o path)
    \o (IF u.ForceQuery \/ u.RawQuery # <<>> THEN <<"?">> \o u.RawQuery ELSE <<>>)
    \o (IF u.Fragment # <<>> THEN <<"#">> \o escape(u.Fragment, "fragment") ELSE <<>>)

(***************************************************************************)
(* net/url: Values, Values.Set, Values.Encode, ParseQuery                  *)
(***************************************************************************)
EmptyValues == [k \in {} |-> <<>>]

\* Values.Set(key, value)
Set(v, key, value) ==
    [k \in DOMAIN v \cup {key} |-> IF k = key THEN <<value>> ELSE v[k]]

\* the keys BrowserURL sets, in ascending byte order (the order of sort.Strings)
KeyOrder == << <<"allow_signup">>, <<"client_id">>, <<"login">>,
               <<"redirect_uri">>, <<"scope">>, <<"state">> >>

\* the order of the q.Set calls in BrowserURL
SetOrder == << <<"client_id">>, <<"redirect_uri">>, <<"scope">>, <<"state">>,
               <<"login">>, <<"allow_signup">> >>

\* the keys in the order of the q.Set calls instead of sorted
insertionKeys(v) == SelectSeq(SetOrder, LAMBDA k : k \in DOMAIN v)

\* the sorted key slice Values.Encode iterates over
sortedKeys(v) == SelectSeq(KeyOrder, LAMBDA k : k \in DOMAIN v)

RECURSIVE encodeFrom(_, _, _)
encodeFrom(v, keys, i) ==
    IF i > Len(keys) THEN <<>>
    ELSE LET k    == keys[i]
             pair == QueryEscape(k) \o <<"=">> \o QueryEscape(v[k][1])
             rest == encodeFrom(v, keys, i + 1)
         IN  IF rest = <<>> THEN pair ELSE pair \o <<"&">> \o rest

\* Values.Encode: "k=v" pairs, both escaped, joined by "&", sorted by key
\* (every key BrowserURL sets has exactly one value)
Encode(v) == encodeFrom(v, sortedKeys(v), 1)

RECURSIVE ParseQuery(_)
\* url.ParseQuery as the list of (key, value) pairs in order of appearance;
\* a pair with an empty key or a bad escape is dropped
ParseQuery(query) ==
    IF query = <<>> THEN <<>>
    ELSE LET c    == Cut(query, "&")
             kv   == Cut(c.before, "=")
             k    == unescape(kv.before, "query")
             val  == unescape(kv.after, "query")
             rest == ParseQuery(c.after)
         IN  IF kv.before = <<>> \/ ~k.ok \/ ~val.ok THEN rest
             ELSE << [key |-> k.s, value |-> val.s] >> \o rest

\* Values.Has and Values.Get on the parsed pairs
Has(pairs, key) == \E i \in 1..Len(pairs) : pairs[i].key = key

Get(pairs, key) ==
    IF Has(pairs, key)
    THEN pairs[CHOOSE i \in 1..Len(pairs) :
                 /\ pairs[i].key = key
                 /\ \A j \in 1..(i - 1) : pairs[j].key # key].value
    ELSE <<>>

(***************************************************************************)
(* Inputs                                                                  *)
(***************************************************************************)
\* outcomes of rand.Read: the bytes read, or an error
RandBytes == {"r1", "r2"}

RandOutcomes == [err : {FALSE}, b : RandBytes] \cup {[err |-> TRUE, b |-> "r1"]}

\* hex.EncodeToString of the bytes read
EncodeToString(b) == IF b = "r1" THEN <<"0a1b2c">> ELSE <<"ffe0d1">>

BaseURLs == { <<"https", ":", "/", "/", "github.com", "/", "login", "/", "oauth", "/", "authorize">>,
              <<"http", ":", "/", "/", "idp.test", "/", "auth">> }

ClientIDs == { <<"app1">>, <<"my", " ", "app", "&", "x", "=", "1">> }

URILoopback  == <<"http", ":", "/", "/", "127.0.0.1", "/", "callback">>
URIWithPort  == <<"http", ":", "/", "/", "localhost", ":", "8080", "/", "cb">>
URINoPath    == <<"http", ":", "/", "/", "localhost">>
URINoScheme  == <<"/", "callback">>
URIOpaque    == <<"http", ":", "callback">>
URIEscaped   == <<"http", ":", "/", "/", "localhost", "/", "a", "%20", "b", "?", "x", "=", "1">>
URIFragment  == <<"https", ":", "/", "/", "example.com", "/", "oauth", "/", "cb", "#", "frag">>
URIRelative  == <<"callback">>
URINoProto   == <<":", "/", "/", "localhost", "/", "callback">>
URIBadPort   == <<"http", ":", "/", "/", "localhost", ":", "cb", "/", "callback">>

RedirectURIs == {URILoopback, URIWithPort, URINoPath, URINoScheme, URIOpaque,
                 URIEscaped, URIFragment, URIRelative, URINoProto, URIBadPort}

ScopeLists == { <<>>, << <<"repo">> >>,
                << <<"repo">>, <<"read", ":", "org">> >>,
                << <<"read", ":", "org">>, <<"repo">> >> }

LoginHandles == { <<>>, <<"octocat">>, <<"a", "+", "b">> }

\* every BrowserParams value of the URL specification
AllBrowserParams ==
    [ClientID : ClientIDs, RedirectURI : RedirectURIs, Scopes : ScopeLists,
     LoginHandle : LoginHandles, AllowSignup : BOOLEAN]

\* the BrowserParams values used while a flow runs
FlowBrowserParams ==
    { [ClientID |-> <<"app1">>, RedirectURI |-> URILoopback,
       Scopes |-> << <<"repo">> >>, LoginHandle |-> <<>>, AllowSignup |-> TRUE],
      [ClientID |-> <<"my", " ", "app", "&", "x", "=", "1">>, RedirectURI |-> URIWithPort,
       Scopes |-> << <<"repo">>, <<"read", ":", "org">> >>,
       LoginHandle |-> <<"octocat">>, AllowSignup |-> FALSE],
      [ClientID |-> <<"app1">>, RedirectURI |-> URINoProto,
       Scopes |-> <<>>, LoginHandle |-> <<>>, AllowSignup |-> TRUE] }

(***************************************************************************)
(* Flow and localServer                                                    *)
(***************************************************************************)
NoFlow == [state |-> <<>>, clientID |-> <<>>]

NoServer == [port |-> 0, CallbackPath |-> <<>>, WriteSuccessHTML |-> "nil",
             listener |-> "unbound"]

NoBrowserCall == [called |-> FALSE, baseURL |-> <<>>,
                  params |-> [ClientID |-> <<>>, RedirectURI |-> <<>>, Scopes |-> <<>>,
                              LoginHandle |-> <<>>, AllowSignup |-> TRUE],
                  url |-> <<>>, err |-> FALSE]

\* bindLocalServer: a listener bound to an OS-assigned port
bindLocalServer(port) ==
    [port |-> port, CallbackPath |-> <<>>, WriteSuccessHTML |-> "nil",
     listener |-> "bound"]

\* randomString(length): the hex encoding of the bytes read, or "" and an error
randomString(rd) ==
    IF rd.err THEN [s |-> <<>>, err |-> TRUE]
    ELSE [s |-> EncodeToString(rd.b), err |-> FALSE]

\* the Flow that InitFlow builds: the error of randomString is discarded
newFlow(rd) == [state |-> randomString(rd).s, clientID |-> <<>>]

NoCode == [Code |-> <<>>, State |-> <<>>, Error |-> <<>>]

NoSignal == [fired |-> FALSE, consumed |-> FALSE, result |-> NoCode]

Nil == <<>>

ErrStateMismatch == <<"state", " ", "mismatch">>
ErrListenerIO    == <<"ListenerIOError">>
ErrTransport     == <<"transport", " ", "error">>
ErrTokenExchange == <<"TokenExchangeFailed">>

\* most requests whose handler may be running at the same time
MaxInflight == 2

\* the redirects a browser (or anyone else on the machine) may send
Requests ==
    [Path : { <<"/", "callback">> },
     Code : { <<"abc123">> }, State : { <<"0a1b2c">>, <<>> }, Error : { <<>> }]
    \cup
    [Path : { <<"/", "callback">>, <<"/", "cb">> },
     Code : { <<>> }, State : { <<"0a1b2c">> }, Error : { <<"access_denied">> }]

WriteSuccessFuncs == {"custom"}

TokenURLGitHub == <<"https", ":", "/", "/", "github.com", "/", "login", "/", "oauth", "/", "access_token">>
TokenURLOther  == <<"http", ":", "/", "/", "idp.test", "/", "token">>

\* url.Values arguments: nil, or a map from keys to value lists
NilParams == [nil |-> TRUE, m |-> EmptyValues]

GrantParams ==
    [nil |-> FALSE, m |-> [k \in { <<"grant_type">> } |-> << <<"authorization_code">> >>]]

ForgedParams ==
    [nil |-> FALSE,
     m |-> [k \in { <<"client_id">>, <<"state">>, <<"audience">> } |->
              IF k = <<"state">> THEN << <<"forged">>, <<"0a1b2c">> >>
              ELSE << <<"evil">> >>]]

\* the arguments of the AccessTokenWithParams calls
TokenArgs ==
    { [tokenURL |-> TokenURLOther, clientSecret |-> <<"s3cret">>, postParams |-> NilParams],
      [tokenURL |-> TokenURLGitHub, clientSecret |-> <<"s3cret">>, postParams |-> GrantParams],
      [tokenURL |-> TokenURLGitHub, clientSecret |-> <<>>, postParams |-> ForgedParams] }

\* the arguments of the AccessToken calls
AccessTokenArgs ==
    { [tokenURL |-> TokenURLOther, clientSecret |-> <<"s3cret">>] }

\* what the token endpoint may answer to a POST
Responses == { [kind |-> "token", token |-> <<"tok_xyz">>],
               [kind |-> "transport"], [kind |-> "status"], [kind |-> "unparsable"] }

NoCall == [tokenURL |-> <<>>, clientSecret |-> <<>>,
           postParams |-> NilParams,
           code |-> NoCode, got |-> FALSE, resp |-> "none", base |-> 0]

NoRet == [done |-> FALSE, token |-> Nil, err |-> Nil]

(***************************************************************************)
(* InitFlow                                                                *)
(***************************************************************************)
\* most further InitFlow calls
MaxFlows == 3

\* the nonces of the flows created so far
usedNonces == {flow.state} \cup {made[i].flow.state : i \in 1..Len(made)}

\* rand.Read is a cryptographic source: a read that succeeds never repeats
\* the bytes of an earlier read
FreshOutcomes ==
    {rd \in RandOutcomes : rd.err \/ EncodeToString(rd.b) \notin usedNonces}

InitFlow ==
    /\ initRet = "none"
    /\ \/ /\ initRet' = "err"          \* bindLocalServer failed
          /\ UNCHANGED <<flow, server>>
       \/ \E port \in Ports, rd \in FreshOutcomes :
             /\ server' = bindLocalServer(port)
             /\ flow' = newFlow(rd)
             /\ initRet' = "ok"
    /\ UNCHANGED <<made, browserCall, serveRet, inflight, signal, ioErr, pc, call,
                   posts, ret, handled>>

\* a further, independent InitFlow call: its return value is recorded
InitFlowOther ==
    /\ Len(made) < MaxFlows
    /\ \/ made' = Append(made, [ok |-> FALSE, flow |-> NoFlow])
       \/ \E rd \in FreshOutcomes :
             made' = Append(made, [ok |-> TRUE, flow |-> newFlow(rd)])
    /\ UNCHANGED <<initRet, flow, server, browserCall, serveRet, inflight, signal,
                   ioErr, pc, call, posts, ret, handled>>

(***************************************************************************)
(* Flow.BrowserURL                                                         *)
(***************************************************************************)
\* a rewrite to a fixed port instead of the server's
rewriteHostFixedPort(ru, port) == [ru EXCEPT !.Host = Hostname(ru) \o <<":", "8080">>]

\* a rewrite that keeps the port of the supplied URI
rewriteHostKeepPort(ru, port) ==
    [ru EXCEPT !.Host = IF Index(ru.Host, ":") # 0 THEN ru.Host
                        ELSE Hostname(ru) \o <<":", ToString(port)>>]

\* ru.Host = fmt.Sprintf("%s:%d", ru.Hostname(), flow.server.Port())
rewriteHost(ru, port) == [ru EXCEPT !.Host = Hostname(ru) \o <<":", ToString(port)>>]

\* the query values with a state that is not the flow's nonce
browserQueryOtherState(fl, srv, params, ru) ==
    LET q1 == Set(EmptyValues, <<"client_id">>, params.ClientID)
        q2 == Set(q1, <<"redirect_uri">>, String(rewriteHost(ru, srv.port)))
        q3 == Set(q2, <<"scope">>, Join(params.Scopes, <<" ">>))
        q4 == Set(q3, <<"state">>, params.ClientID)
        q5 == IF params.LoginHandle # <<>>
              THEN Set(q4, <<"login">>, params.LoginHandle) ELSE q4
        q6 == IF ~params.AllowSignup
              THEN Set(q5, <<"allow_signup">>, <<"false">>) ELSE q5
    IN  q6

\* the query values with the login and allow_signup conditions inverted
browserQueryInverted(fl, srv, params, ru) ==
    LET q1 == Set(EmptyValues, <<"client_id">>, params.ClientID)
        q2 == Set(q1, <<"redirect_uri">>, String(rewriteHost(ru, srv.port)))
        q3 == Set(q2, <<"scope">>, Join(params.Scopes, <<" ">>))
        q4 == Set(q3, <<"state">>, fl.state)
        q5 == IF params.LoginHandle # <<>>
              THEN Set(q4, <<"login">>, params.LoginHandle) ELSE q4
        q6 == IF params.AllowSignup
              THEN Set(q5, <<"allow_signup">>, <<"false">>) ELSE q5
    IN  q6

\* the query values q that BrowserURL assembles
browserQuery(fl, srv, params, ru) ==
    LET q1 == Set(EmptyValues, <<"client_id">>, params.ClientID)
        q2 == Set(q1, <<"redirect_uri">>, String(rewriteHost(ru, srv.port)))
        q3 == Set(q2, <<"scope">>, Join(params.Scopes, <<" ">>))
        q4 == Set(q3, <<"state">>, fl.state)
        q5 == IF params.LoginHandle # <<>>
              THEN Set(q4, <<"login">>, params.LoginHandle) ELSE q4
        q6 == IF ~params.AllowSignup
              THEN Set(q5, <<"allow_signup">>, <<"false">>) ELSE q5
    IN  q6

\* a BrowserURL that stores the client id before it parses the redirect URI
BrowserURLStoresEarly(baseURL, params) ==
    /\ initRet = "ok"
    /\ flow' = [flow EXCEPT !.clientID = params.ClientID]
    /\ LET ru == Parse(params.RedirectURI) IN
       IF ~ru.ok
       THEN /\ browserCall' = [called |-> TRUE, baseURL |-> baseURL, params |-> params,
                               url |-> <<>>, err |-> TRUE]
            /\ UNCHANGED server
       ELSE /\ server' = [server EXCEPT !.CallbackPath = ru.Path]
            /\ browserCall' =
                 [called |-> TRUE, baseURL |-> baseURL, params |-> params,
                  url |-> baseURL \o <<"?">> \o Encode(browserQuery(flow, server, params, ru)),
                  err |-> FALSE]
    /\ UNCHANGED <<made, initRet, serveRet, inflight, signal, ioErr, pc, call, posts,
                   ret, handled>>

BrowserURL(baseURL, params) ==
    /\ initRet = "ok"
    /\ LET ru == Parse(params.RedirectURI) IN
       IF ~ru.ok
       THEN /\ browserCall' = [called |-> TRUE, baseURL |-> baseURL, params |-> params,
                               url |-> <<>>, err |-> TRUE]
            /\ UNCHANGED <<flow, server>>
       ELSE /\ server' = [server EXCEPT !.CallbackPath = ru.Path]
            /\ flow' = [flow EXCEPT !.clientID = params.ClientID]
            /\ browserCall' =
                 [called |-> TRUE, baseURL |-> baseURL, params |-> params,
                  url |-> baseURL \o <<"?">> \o Encode(browserQuery(flow, server, params, ru)),
                  err |-> FALSE]
    /\ UNCHANGED <<made, initRet, serveRet, inflight, signal, ioErr, pc, call, posts,
                   ret, handled>>

(***************************************************************************)
(* localServer: Serve, the request handler, the completion signal          *)
(***************************************************************************)
\* a StartServer that clears the callback path when it sets the renderer
StartServerResetsPath(writeSuccess) ==
    /\ initRet = "ok"
    /\ serveRet # "serving"
    /\ server' = [server EXCEPT !.WriteSuccessHTML = writeSuccess,
                                !.CallbackPath = <<>>,
                                !.listener = IF @ = "bound" THEN "serving" ELSE @]
    /\ serveRet' = IF server.listener = "bound" THEN "serving" ELSE "err"
    /\ UNCHANGED <<made, initRet, flow, browserCall, inflight, signal, ioErr, pc, call,
                   posts, ret, handled>>

\* Flow.StartServer: sets the renderer and blocks in server.Serve
StartServer(writeSuccess) ==
    /\ initRet = "ok"
    /\ serveRet # "serving"
    /\ server' = [server EXCEPT !.WriteSuccessHTML = writeSuccess,
                                !.listener = IF @ = "bound" THEN "serving" ELSE @]
    /\ serveRet' = IF server.listener = "bound" THEN "serving" ELSE "err"
    /\ UNCHANGED <<made, initRet, flow, browserCall, inflight, signal, ioErr, pc, call,
                   posts, ret, handled>>

\* the listener accepts a connection
Accept(req) ==
    /\ server.listener = "serving"
    /\ req \notin inflight
    /\ Cardinality(inflight) < MaxInflight
    /\ inflight' = inflight \cup {req}
    /\ UNCHANGED <<made, initRet, flow, server, browserCall, serveRet, signal, ioErr,
                   pc, call, posts, ret, handled>>

\* the CallbackResult of a request: only the error if one is present
callbackResult(req) ==
    IF req.Error # <<>> THEN [Code |-> <<>>, State |-> <<>>, Error |-> req.Error]
    ELSE [Code |-> req.Code, State |-> req.State, Error |-> <<>>]

\* a handler that publishes for every request to the callback path
mayPublishAlways(sig) == TRUE

\* whether the handler publishes the result of a request to the callback path
mayPublish(sig) == ~sig.fired

\* the handler of one accepted request
ServeHTTP(req) ==
    /\ req \in inflight
    /\ inflight' = inflight \ {req}
    /\ IF req.Path # server.CallbackPath
       THEN UNCHANGED <<server, serveRet, signal, handled>>
       ELSE /\ handled' = Append(handled, req)
            /\ IF mayPublish(signal)
               THEN /\ signal' = [fired |-> TRUE, consumed |-> FALSE,
                                  result |-> callbackResult(req)]
                    /\ server' = [server EXCEPT !.listener = "closed"]
                    /\ serveRet' = IF serveRet = "serving" THEN "nil" ELSE serveRet
               ELSE UNCHANGED <<server, serveRet, signal>>
    /\ UNCHANGED <<made, initRet, flow, browserCall, ioErr, pc, call, posts, ret>>

\* the listener fails: Serve returns the error and the waiter is told
ListenerError ==
    /\ server.listener = "serving"
    /\ server' = [server EXCEPT !.listener = "closed"]
    /\ serveRet' = "err"
    /\ ioErr' = TRUE
    /\ UNCHANGED <<made, initRet, flow, browserCall, inflight, signal, pc, call, posts,
                   ret, handled>>

(***************************************************************************)
(* Flow.AccessTokenWithParams and Flow.AccessToken                         *)
(***************************************************************************)
\* entry of AccessTokenWithParams
ATWP_Call(tokenURL, clientSecret, postParams) ==
    /\ initRet = "ok"
    /\ pc = "idle"
    /\ pc' = "wait"
    /\ call' = [tokenURL |-> tokenURL, clientSecret |-> clientSecret,
                postParams |-> postParams, code |-> NoCode, got |-> FALSE,
                resp |-> "none", base |-> Len(posts)]
    /\ ret' = NoRet
    /\ UNCHANGED <<made, initRet, flow, server, browserCall, serveRet, inflight, signal,
                   ioErr, posts, handled>>

\* AccessToken(c, tokenURL, clientSecret): AccessTokenWithParams with nil params
AccessToken(tokenURL, clientSecret) ==
    ATWP_Call(tokenURL, clientSecret, NilParams)

\* WaitForCode has a result to hand over: the signal fired and is unconsumed
codeReady(sig) == sig.fired /\ ~sig.consumed

\* code, err := flow.server.WaitForCode(); if err != nil { return nil, err }
ATWP_Wait ==
    /\ pc = "wait"
    /\ \/ /\ codeReady(signal)
          /\ signal' = [signal EXCEPT !.consumed = TRUE]
          /\ call' = [call EXCEPT !.code = signal.result, !.got = TRUE]
          /\ pc' = "compare"
          /\ UNCHANGED ret
       \/ /\ ioErr
          /\ ret' = [done |-> TRUE, token |-> Nil, err |-> ErrListenerIO]
          /\ pc' = "idle"
          /\ UNCHANGED <<signal, call>>
    /\ UNCHANGED <<made, initRet, flow, server, browserCall, serveRet, inflight, ioErr,
                   posts, handled>>

\* a comparison that lets an empty callback state through
stateMismatchSkipEmpty(code, fl) == code.State # <<>> /\ code.State # fl.state

\* code.State != flow.state
stateMismatch(code, fl) == code.State # fl.state

\* if code.State != flow.state { return nil, errors.New("state mismatch") }
ATWP_Compare ==
    /\ pc = "compare"
    /\ IF stateMismatch(call.code, flow)
       THEN /\ ret' = [done |-> TRUE, token |-> Nil, err |-> ErrStateMismatch]
            /\ pc' = "idle"
       ELSE /\ pc' = "post"
            /\ UNCHANGED ret
    /\ UNCHANGED <<made, initRet, flow, server, browserCall, serveRet, inflight, signal,
                   ioErr, call, posts, handled>>

ControlKeys == { <<"client_id">>, <<"client_secret">>, <<"code">>, <<"state">> }

\* assignments with the code and the state exchanged
controlValueSwapped(k, fl, clientSecret, code) ==
    CASE k = <<"client_id">>     -> << fl.clientID >>
      [] k = <<"client_secret">> -> << clientSecret >>
      [] k = <<"code">>          -> << code.State >>
      [] k = <<"state">>         -> << code.Code >>

\* the four assignments postParams[k] = []string{v}
controlValue(k, fl, clientSecret, code) ==
    CASE k = <<"client_id">>     -> << fl.clientID >>
      [] k = <<"client_secret">> -> << clientSecret >>
      [] k = <<"code">>          -> << code.Code >>
      [] k = <<"state">>         -> << fl.state >>

\* a merge in which a caller-supplied value wins over the control value
postBodyCallerWins(postParams, fl, clientSecret, code) ==
    LET m == IF postParams.nil THEN EmptyValues ELSE postParams.m IN
    [k \in DOMAIN m \cup ControlKeys |->
        IF k \in DOMAIN m THEN m[k] ELSE controlValue(k, fl, clientSecret, code)]

\* postParams after the nil check and the four assignments
postBody(postParams, fl, clientSecret, code) ==
    LET m == IF postParams.nil THEN EmptyValues ELSE postParams.m IN
    [k \in DOMAIN m \cup ControlKeys |->
        IF k \in ControlKeys THEN controlValue(k, fl, clientSecret, code) ELSE m[k]]

\* (*api.FormResponse).AccessToken, and the error of api.PostForm
tokenResult(resp) ==
    CASE resp.kind = "token"      -> [done |-> TRUE, token |-> resp.token, err |-> Nil]
      [] resp.kind = "transport"  -> [done |-> TRUE, token |-> Nil, err |-> ErrTransport]
      [] OTHER                    -> [done |-> TRUE, token |-> Nil, err |-> ErrTokenExchange]

\* an exchange that posts a second time when the first POST fails
ATWP_PostRetries ==
    /\ pc = "post"
    /\ \E resp \in Responses :
          LET p == [url |-> call.tokenURL,
                    body |-> postBody(call.postParams, flow, call.clientSecret, call.code)]
          IN  /\ posts' = IF resp.kind = "token" THEN Append(posts, p)
                          ELSE Append(Append(posts, p), p)
              /\ call' = [call EXCEPT !.resp = resp.kind]
              /\ ret' = tokenResult(resp)
    /\ pc' = "idle"
    /\ UNCHANGED <<made, initRet, flow, server, browserCall, serveRet, inflight, signal,
                   ioErr, handled>>

\* resp, err := api.PostForm(c, tokenURL, postParams); return resp.AccessToken()
ATWP_Post ==
    /\ pc = "post"
    /\ \E resp \in Responses :
          /\ posts' = Append(posts, [url |-> call.tokenURL,
                                     body |-> postBody(call.postParams, flow,
                                                       call.clientSecret, call.code)])
          /\ call' = [call EXCEPT !.resp = resp.kind]
          /\ ret' = tokenResult(resp)
    /\ pc' = "idle"
    /\ UNCHANGED <<made, initRet, flow, server, browserCall, serveRet, inflight, signal,
                   ioErr, handled>>

(***************************************************************************)
(* Specifications                                                          *)
(***************************************************************************)
Init ==
    /\ initRet = "none"
    /\ flow = NoFlow
    /\ server = NoServer
    /\ browserCall = NoBrowserCall
    /\ serveRet = "none"
    /\ inflight = {}
    /\ signal = NoSignal
    /\ ioErr = FALSE
    /\ pc = "idle"
    /\ call = NoCall
    /\ posts = <<>>
    /\ ret = NoRet
    /\ handled = <<>>
    /\ made = <<>>

Next ==
    \/ InitFlow
    \/ \E b \in {CHOOSE x \in BaseURLs : TRUE}, p \in FlowBrowserParams : BrowserURL(b, p)
    \/ \E w \in WriteSuccessFuncs : StartServer(w)
    \/ \E r \in Requests : Accept(r)
    \/ \E r \in Requests : ServeHTTP(r)
    \/ ListenerError
    \/ \E a \in TokenArgs : ATWP_Call(a.tokenURL, a.clientSecret, a.postParams)
    \/ \E a \in AccessTokenArgs : AccessToken(a.tokenURL, a.clientSecret)
    \/ ATWP_Wait
    \/ ATWP_Compare
    \/ ATWP_Post

Spec == Init /\ [][Next]_vars

\* the scheduler runs every goroutine that can take a step: the request
\* handlers and the caller of AccessTokenWithParams
SpecFair ==
    /\ Spec
    /\ WF_vars(\E r \in Requests : ServeHTTP(r))
    /\ WF_vars(ATWP_Wait)
    /\ WF_vars(ATWP_Compare)
    /\ WF_vars(ATWP_Post)

\* InitFlow alone, called several times in one process
NextInit == InitFlow \/ InitFlowOther

SpecInit == Init /\ [][NextInit]_vars

\* BrowserURL alone, over every BrowserParams, on each Flow InitFlow can return
InitURL ==
    /\ initRet = "ok"
    /\ \E port \in URLPorts, rd \in RandOutcomes :
          /\ server = bindLocalServer(port)
          /\ flow = newFlow(rd)
    /\ browserCall = NoBrowserCall
    /\ serveRet = "none"
    /\ inflight = {}
    /\ signal = NoSignal
    /\ ioErr = FALSE
    /\ pc = "idle"
    /\ call = NoCall
    /\ posts = <<>>
    /\ ret = NoRet
    /\ handled = <<>>
    /\ made = <<>>

NextURL ==
    /\ ~browserCall.called
    /\ \E b \in BaseURLs, p \in AllBrowserParams : BrowserURL(b, p)

SpecURL == InitURL /\ [][NextURL]_vars

(***************************************************************************)
(* Properties of AccessTokenWithParams                                     *)
(***************************************************************************)
\* the call has returned after WaitForCode delivered a callback result
Returned == pc = "idle" /\ ret.done /\ call.got

\* the POSTs issued by the current (or last) call
CallPosts == Len(posts) - call.base

LastPost == posts[Len(posts)]

\* C1: a callback result whose state differs from the flow's nonce makes the
\* call return "state mismatch" with no POST, and a POST is only ever issued
\* by a call whose state comparison has succeeded.
C1_StateMismatchNoPost ==
    /\ (Returned /\ call.code.State # flow.state)
          => (ret.err = ErrStateMismatch /\ ret.token = Nil /\ CallPosts = 0)
    /\ (pc = "post" \/ CallPosts > 0)
          => (call.got /\ call.code.State = flow.state)
    /\ (pc \in {"wait", "compare"}) => CallPosts = 0

C1_Witness ==
    /\ Returned
    /\ flow.state # <<>>
    /\ call.code.State # flow.state
    /\ call.code.Code # <<>>
    /\ ret.err = ErrStateMismatch
    /\ posts = <<>>

\* C2: when the callback state equals the nonce and the code is non-empty, one
\* call issues exactly one POST, to tokenURL, whose body carries client_id as
\* given to BrowserURL, client_secret as passed, the callback's code and the nonce.
C2_OnePostWithControlFields ==
    /\ [](  (Returned /\ call.code.State = flow.state /\ call.code.Code # <<>>)
               => /\ CallPosts = 1
                  /\ LastPost.url = call.tokenURL
                  /\ LastPost.body[<<"client_secret">>] = << call.clientSecret >>
                  /\ LastPost.body[<<"code">>] = << call.code.Code >>
                  /\ LastPost.body[<<"state">>] = << flow.state >> )
    /\ [][ (posts' # posts /\ browserCall.called /\ ~browserCall.err)
               => posts'[Len(posts')].body[<<"client_id">>] = << browserCall.params.ClientID >>
         ]_vars

C2_Witness ==
    /\ Returned
    /\ call.code.State = flow.state
    /\ call.code.Code # <<>>
    /\ flow.state # <<>>
    /\ browserCall.called /\ ~browserCall.err
    /\ Len(posts) = 1
    /\ posts[1].body[<<"client_id">>] = << browserCall.params.ClientID >>
    /\ ret.err = Nil

\* C3: a callback that carries an error parameter makes the call fail with
\* that error, verbatim, and no POST is attempted.
C3_CallbackErrorSurfaced ==
    (Returned /\ call.code.Error # <<>>)
       => (ret.err = call.code.Error /\ CallPosts = 0)

\* C4: the POST body is the caller's extra parameters plus the four control
\* fields; other keys are kept unchanged and the control keys carry the flow's
\* own values whatever the caller supplied for them.
C4_BodyIsMergeControlWins ==
    [][ posts' # posts =>
          LET b     == posts'[Len(posts')].body
              extra == IF call.postParams.nil THEN EmptyValues ELSE call.postParams.m
          IN  /\ DOMAIN b = DOMAIN extra \cup ControlKeys
              /\ \A k \in DOMAIN extra \ ControlKeys : b[k] = extra[k]
              /\ b[<<"client_id">>] = << flow.clientID >>
              /\ b[<<"client_secret">>] = << call.clientSecret >>
              /\ b[<<"code">>] = << call.code.Code >>
              /\ b[<<"state">>] = << flow.state >>
      ]_vars

C4_Witness ==
    /\ Returned
    /\ call.postParams = ForgedParams
    /\ Len(posts) = 1
    /\ posts[1].body[<<"audience">>] = << <<"evil">> >>
    /\ posts[1].body[<<"client_id">>] # << <<"evil">> >>
    /\ posts[1].body[<<"state">>] = << flow.state >>

\* C5: a callback result whose state is empty never leads to a POST: the call
\* is rejected with "state mismatch".
C5_EmptyStateRejected ==
    (call.got /\ call.code.State = <<>>)
       => /\ pc # "post"
          /\ CallPosts = 0
          /\ (pc = "idle" => ret.err = ErrStateMismatch)

\* C10: exactly the first request to the callback path publishes; the signal
\* never changes once fired, and the waiter sees the first request's result.
C10_PublishedOnce ==
    /\ [](  /\ signal.fired <=> handled # <<>>
            /\ signal.fired => signal.result = callbackResult(handled[1])
            /\ call.got => (handled # <<>> /\ call.code = callbackResult(handled[1])) )
    /\ [][ signal.fired =>
             (signal'.fired /\ signal'.result = signal.result
                /\ (signal.consumed => signal'.consumed)) ]_vars

C10_Witness ==
    /\ Len(handled) >= 2
    /\ callbackResult(handled[2]) # callbackResult(handled[1])
    /\ signal.result = callbackResult(handled[1])
    /\ call.got
    /\ call.code = callbackResult(handled[1])

(***************************************************************************)
(* Properties of BrowserURL                                                *)
(***************************************************************************)
\* BrowserURL was called and returned a URL
URLReturned == browserCall.called /\ ~browserCall.err

\* the query string of the returned URL, parsed
URLPairs == ParseQuery(Cut(browserCall.url, "?").after)

\* the keys of the returned URL's query, in order of appearance
URLKeys == [i \in 1..Len(URLPairs) |-> URLPairs[i].key]

\* the redirect URI as supplied and as emitted, both parsed
Supplied == Parse(browserCall.params.RedirectURI)

Emitted == Parse(Get(URLPairs, <<"redirect_uri">>))

PortToken == ToString(server.port)

Hierarchical(u) == u.Opaque = <<>> /\ (u.Path = <<>> \/ u.Path[1] = "/")

C7_QueryRoundTrips ==
    URLReturned
       => /\ Get(URLPairs, <<"client_id">>) = browserCall.params.ClientID
          /\ Get(URLPairs, <<"scope">>) = Join(browserCall.params.Scopes, <<" ">>)
          /\ Get(URLPairs, <<"state">>) = flow.state
          /\ Cut(browserCall.url, "?").before = browserCall.baseURL

C7_Witness ==
    /\ URLReturned
    /\ Index(browserCall.params.ClientID, "&") # 0
    /\ Len(browserCall.params.Scopes) = 2
    /\ flow.state # <<>>
    /\ Get(URLPairs, <<"scope">>) = <<"read", ":", "org", " ", "repo">>

\* C8: allow_signup is present, as "false", exactly when AllowSignup is false;
\* login is present, equal to LoginHandle, exactly when LoginHandle is non-empty.
C8_OptionalParams ==
    URLReturned
       => /\ Has(URLPairs, <<"allow_signup">>) <=> ~browserCall.params.AllowSignup
          /\ Has(URLPairs, <<"allow_signup">>)
                => Get(URLPairs, <<"allow_signup">>) = <<"false">>
          /\ Has(URLPairs, <<"login">>) <=> browserCall.params.LoginHandle # <<>>
          /\ Has(URLPairs, <<"login">>)
                => Get(URLPairs, <<"login">>) = browserCall.params.LoginHandle

C8_Witness ==
    /\ URLReturned
    /\ ~browserCall.params.AllowSignup
    /\ browserCall.params.LoginHandle = <<"a", "+", "b">>
    /\ Get(URLPairs, <<"allow_signup">>) = <<"false">>
    /\ Get(URLPairs, <<"login">>) = <<"a", "+", "b">>

\* C9 as stated: the parameters appear in the order client_id, redirect_uri,
\* scope, state, then login if present, then allow_signup if present.
C9_OrderOfSetCalls ==
    URLReturned
       => URLKeys =
              << <<"client_id">>, <<"redirect_uri">>, <<"scope">>, <<"state">> >>
           \o (IF browserCall.params.LoginHandle # <<>> THEN << <<"login">> >> ELSE <<>>)
           \o (IF ~browserCall.params.AllowSignup THEN << <<"allow_signup">> >> ELSE <<>>)

\* C9 amended: the parameters appear in ascending order of their keys:
\* allow_signup if present, client_id, login if present, redirect_uri, scope, state.
C9_OrderSortedByKey ==
    URLReturned
       => URLKeys =
              (IF ~browserCall.params.AllowSignup THEN << <<"allow_signup">> >> ELSE <<>>)
           \o << <<"client_id">> >>
           \o (IF browserCall.params.LoginHandle # <<>> THEN << <<"login">> >> ELSE <<>>)
           \o << <<"redirect_uri">>, <<"scope">>, <<"state">> >>

C9_Witness ==
    /\ URLReturned
    /\ URLKeys = << <<"allow_signup">>, <<"client_id">>, <<"login">>,
                    <<"redirect_uri">>, <<"scope">>, <<"state">> >>

(***************************************************************************)
(* Properties of construction, of the handoff and of the flow's fields     *)
(***************************************************************************)
\* C11: every Flow that InitFlow returns holds a nonce produced by a
\* successful read of the random source, never the empty string.
C11_NonceFromSuccessfulRead == initRet = "ok" => flow.state # <<>>

\* the port token embedded in a host, as (*URL).Port reads it
portOf(host) == Cut(host, ":").after

\* C12: the port never changes after construction, the port embedded in every
\* authorization URL is the port of the listener, and a failed bind leaves no
\* Flow and no URL.
C12_PortChosenOnce ==
    /\ [](  (URLReturned /\ Emitted.ok /\ Emitted.Host # <<>>)
               => portOf(Emitted.Host) = << PortToken >> )
    /\ [](  initRet = "err"
               => (flow = NoFlow /\ server = NoServer /\ ~browserCall.called) )
    /\ [][ initRet = "ok" => (initRet' = "ok" /\ server'.port = server.port) ]_vars

C12_Witness ==
    /\ URLReturned
    /\ browserCall.params.RedirectURI = URIWithPort
    /\ portOf(Emitted.Host) = << ToString(server.port) >>
    /\ server.port \in Ports
    /\ server.listener = "serving"

C14_NoSecondWait ==
    [][ /\ (pc' = "wait" /\ signal'.consumed) => (codeReady(signal') \/ ioErr')
        /\ signal.consumed => ~(call'.got /\ ~call.got) ]_vars

\* the flows InitFlow has returned so far
FlowsReturned ==
    (IF initRet = "ok" THEN {flow} ELSE {})
       \cup {made[i].flow : i \in {j \in 1..Len(made) : made[j].ok}}

NumFlowsReturned ==
    (IF initRet = "ok" THEN 1 ELSE 0)
       + Cardinality({j \in 1..Len(made) : made[j].ok})

\* C15: no two flows that InitFlow has returned hold equal nonces.
C15_NoncesDistinct ==
    Cardinality({f.state : f \in FlowsReturned}) = NumFlowsReturned

\* C16: the nonce never changes after construction; the state in the
\* authorization URL, the state compared with the callback and the state in
\* the POST body are that one value.
C16_NonceImmutable ==
    /\ [][ initRet = "ok" => flow'.state = flow.state ]_vars
    /\ []( URLReturned => Get(URLPairs, <<"state">>) = flow.state )
    /\ []( CallPosts > 0 => /\ LastPost.body[<<"state">>] = << flow.state >>
                            /\ call.code.State = flow.state )

C16_Witness ==
    /\ URLReturned
    /\ flow.state # <<>>
    /\ Len(posts) = 1
    /\ CallPosts = 1
    /\ posts[1].body[<<"state">>] = << Get(URLPairs, <<"state">>) >>
    /\ call.code.State = Get(URLPairs, <<"state">>)

\* C17 as stated: the listener is only ever serving with a recorded callback
\* path, and the path is not written while the listener is serving.
C17_ServesAfterURLBuilt ==
    [][ /\ server'.listener = "serving" => server'.CallbackPath # <<>>
        /\ server.listener = "serving" => server'.CallbackPath = server.CallbackPath
      ]_vars

\* C17 amended: the callback path is written only by a successful BrowserURL
\* call, to the path of its redirectURI; StartServer and the listener never
\* write it.
C17_PathWrittenOnlyByBrowserURL ==
    [][ /\ serveRet' # serveRet => server'.CallbackPath = server.CallbackPath
        /\ server'.CallbackPath # server.CallbackPath
             => /\ browserCall'.called /\ ~browserCall'.err
                /\ server'.CallbackPath = Parse(browserCall'.params.RedirectURI).Path
                /\ serveRet' = serveRet /\ inflight' = inflight /\ signal' = signal
      ]_vars

C17_Witness ==
    /\ server.listener = "serving"
    /\ URLReturned
    /\ server.CallbackPath = <<"/", "callback">>
    /\ browserCall.params.RedirectURI = URILoopback

\* C18: the lifecycle never moves backwards or skips a step: no URL
\* is built after a callback was received, the exchange starts only after an
\* ok callback, and a returned result is final.
C18_LifecycleEnforced ==
    [][ /\ signal.fired => browserCall' = browserCall
        /\ pc' = "post" => (call'.got /\ call'.code.Error = <<>>)
        /\ ret.done => ret' = ret ]_vars

\* C19 as stated: once set by BrowserURL, the client id and the callback path
\* never change.
C19_ClientIDSetOnce ==
    [][ flow.clientID # <<>>
          => /\ flow'.clientID = flow.clientID
             /\ server'.CallbackPath = server.CallbackPath ]_vars

\* C19 amended: the client id and the callback path are written by every
\* successful BrowserURL call and by nothing else, so the client_id of a POST
\* is the client_id of the URL returned by the latest successful BrowserURL.
C19_ClientIDFromLatestURL ==
    [][ /\ flow'.clientID # flow.clientID
             => /\ browserCall'.called /\ ~browserCall'.err
                /\ flow'.clientID = browserCall'.params.ClientID
        /\ (browserCall' # browserCall /\ ~browserCall'.err)
             => /\ flow'.clientID = browserCall'.params.ClientID
                /\ server'.CallbackPath = Parse(browserCall'.params.RedirectURI).Path
        /\ (posts' # posts /\ URLReturned)
             => posts'[Len(posts')].body[<<"client_id">>]
                   = << Get(URLPairs, <<"client_id">>) >>
      ]_vars

C19_Witness ==
    /\ URLReturned
    /\ browserCall.params.ClientID = <<"my", " ", "app", "&", "x", "=", "1">>
    /\ flow.clientID = browserCall.params.ClientID
    /\ Len(posts) = 1
    /\ posts[1].body[<<"client_id">>] = << <<"app1">> >>

\* C20: nothing is retried: a wait that fails returns that error with no
\* POST, a POST that fails returns an error and no token, and one call never
\* issues more than one POST.
C20_NoRetry ==
    /\ CallPosts \in {0, 1}
    /\ (pc = "idle" /\ ret.done /\ ~call.got)
          => (ret.err = ErrListenerIO /\ ret.token = Nil /\ CallPosts = 0)
    /\ (pc = "idle" /\ ret.done /\ call.resp \in {"transport", "status", "unparsable"})
          => (ret.err # Nil /\ ret.token = Nil /\ CallPosts = 1)
    /\ call.resp # "none" => (pc = "idle" /\ ret.done /\ CallPosts = 1)

C20_Witness ==
    /\ pc = "idle" /\ ret.done
    /\ call.resp = "status"
    /\ ret.err = ErrTokenExchange
    /\ ret.token = Nil
    /\ Len(posts) = 1

====
